---- MODULE Spec2Model ----
(***************************************************************************)
(* A model of the physiCCs programs: the gravity module (gravity.py), the  *)
(* particle module (particle.py) and the pendulum module (pendulum.py),    *)
(* each driven by the run loop of its class: pointer events are handled by *)
(* handle_mouse_events and one update() runs per frame (a tick).           *)
(*                                                                         *)
(* Numbers.  Python floats are modelled as fixed-point integers, every     *)
(* division rounded to the nearest unit (as a float operation rounds to    *)
(* the nearest representable value):                                       *)
(*   - controller values, gravity strength, temperature, arm length and    *)
(*     the captured mouse offset are counted in 1/Q;                       *)
(*   - the pendulum angle and angular velocity in micro-radians (1/AQ);    *)
(*   - sines, cosines and the unit collision normal in 1/TQ;               *)
(*   - particle positions in 1/Q pixel, velocities in 1/Q pixel per tick.  *)
(* Pointer coordinates are whole pixels, as pygame reports them.           *)
(***************************************************************************)
EXTENDS Integers, Sequences, FiniteSets, TLC

\* ------------------------------------------------------------ bounds
\* Resolution of the fixed-point values (units per 1.0).
Q == 1000
\* Frames (calls of update) in one run of the main specification.
MaxTicks == 3
\* Pointer events (press, motion, release) handled in one run of it.
MaxEvents == 4

\* ------------------------------------------------------- arithmetic
Abs(x) == IF x < 0 THEN -x ELSE x
Max2(a, b) == IF a > b THEN a ELSE b
Min2(a, b) == IF a < b THEN a ELSE b
\* max(lo, min(hi, x)), the clamp idiom of the source
Clamp(lo, hi, x) == Max2(lo, Min2(hi, x))
\* a / b rounded to the nearest integer (b > 0), halves away from zero
RDiv(a, b) == IF a >= 0 THEN (2 * a + b) \div (2 * b)
                        ELSE -((2 * (-a) + b) \div (2 * b))
\* product of two 1/Q numbers, in 1/Q
MulQ(a, b) == RDiv(a * b, Q)
\* int(x) of Python for x in 1/s: truncation toward zero
Trunc(x, s) == IF x >= 0 THEN x \div s ELSE -((-x) \div s)

\* --------------------------------------------------------------- state
VARIABLES
  module,               \* which program runs: "gravity", "particle", "pendulum"
  midi_out,             \* MIDIPhysicsBase.midi_out: TRUE when an output is bound
  emitted,              \* the messages written to midi_out by the last step
  ticks,                \* frames run so far
  nev,                  \* pointer events handled so far
  button_down,          \* the left mouse button, as the user holds it
  mouse_offset,         \* self.mouse_offset (1/Q pixel)
  stage,                \* "setup": main() asks for the configuration; "run": run()
                        \* loops; "raised": an exception has ended the program
  prompt,               \* setup: the number of the input() prompt that is open
  cc_numbers,           \* the controller numbers of the outputs, in prompt order
  \* gravity.py
  controllers,          \* self.controllers: index -> [value, velocity] (1/Q)
  gravity_strength,     \* self.gravity_strength (1/Q)
  dragging_controller,  \* self.dragging_controller: an index, or None
  dragging_gravity,     \* self.dragging_gravity
  \* particle.py
  red_particle,         \* self.red_particle: [x, y, vx, vy] (1/Q)
  green_particle,       \* self.green_particle
  temperature,          \* self.temperature (1/Q)
  dragging_temperature, \* self.dragging_temperature
  \* pendulum.py
  length,               \* self.length (1/Q pixel)
  angle,                \* self.angle (1/AQ radian)
  angular_velocity,     \* self.angular_velocity (1/AQ radian per tick)
  current_mode,         \* self.current_mode: 0 = MIDI CC, 1 = Pitch Bend
  dragging_length,      \* self.dragging_length
  dragging_pendulum,    \* self.dragging_pendulum
  \* history of the run, read only by the properties
  lastEvent,            \* kind of the last step: "init", "press", "motion", "release", "tick"
  prevEvent,            \* kind of the step before it
  lastPos,              \* pygame.mouse.get_pos() as read by the last pointer handler
  pressPos,             \* the same, as read by the last press
  pressTarget,          \* what the last press grabbed: <<kind, index>>
  pressValue,           \* the value that target had when the press was handled
  pressAngle,           \* the pendulum angle when the press was handled
  bad_input             \* setup: a number outside 0..127 was entered at a CC prompt

gvars == <<controllers, gravity_strength, dragging_controller, dragging_gravity>>
tvars == <<red_particle, green_particle, temperature, dragging_temperature>>
pvars == <<length, angle, angular_velocity, current_mode, dragging_length, dragging_pendulum>>
hvars == <<lastEvent, prevEvent, lastPos, pressPos, pressTarget, pressValue, pressAngle>>
cvars == <<stage, prompt, cc_numbers, bad_input>>
evars == <<module, midi_out, emitted, ticks, nev, button_down, mouse_offset>>
vars == <<evars, gvars, tvars, pvars, hvars, cvars>>

\* ---------------------------------------------------- shared helpers
\* dragging_controller = None
None == -1
\* pygame.Rect(x, y, w, h).collidepoint(px, py): right and bottom edges excluded
CollidePoint(x, y, w, h, px, py) ==
  /\ x <= px /\ px < x + w
  /\ y <= py /\ py < y + h

\* The output a handler writes to: "none" when midi_out is None, "ok" when
\* midi_out is bound and write_short returns, "fail" when midi_out is bound and
\* write_short raises
Sink == IF midi_out THEN "ok" ELSE "none"

\* a faulty variant of the next definition: the value is passed on as it is,
\* without int(value)
SendCCToRaw(sink, cc, v) ==
  IF sink # "none" /\ 0 <= cc /\ cc <= 127 /\ 0 <= v /\ v <= 127 * Q
  THEN <<[type |-> "cc", number |-> cc, value |-> v]>>
  ELSE <<>>
\* MIDIPhysicsBase.send_cc(cc_number, value), value in 1/Q: the write_short
\* calls made (the messages written, when write_short returns)
SendCCTo(sink, cc, v) ==
  IF sink # "none" /\ 0 <= cc /\ cc <= 127 /\ 0 <= v /\ v <= 127 * Q
  THEN <<[type |-> "cc", number |-> cc, value |-> Trunc(v, Q)]>>
  ELSE <<>>
SendCC(cc, v) == SendCCTo(Sink, cc, v)

\* A slider handle's y for a normalized position n (1/Q): y + height - n * height
HandleY(y, height, n) == (y + height) * Q - n * height
\* normalized = 1.0 - (mouse_y - mouse_offset - y) / height, unclamped (1/Q)
NormalizedRaw(y, height, my, offset) == Q - RDiv(my * Q - offset - y * Q, height)
\* a faulty variant of the next definition: the clamp is left out
NormalizedNoClamp(y, height, my, offset) == NormalizedRaw(y, height, my, offset)
\* the same after max(0, min(1, normalized))
Normalized(y, height, my, offset) == Clamp(0, Q, NormalizedRaw(y, height, my, offset))

\* ---------------------------------------------------------- gravity.py
NumControllers == 3
ControllerCC == <<74, 75, 76>>
controller_width == 80
controller_height == 300
controller_spacing == 150
controller_start_x == 100
controller_y == 200
gravity_slider_x == 600
gravity_slider_y == 150
gravity_slider_height == 200
gravity_slider_width == 30
Center == 64
CtlIdx == 0 .. NumControllers - 1
CC(i) == cc_numbers[i + 1]

\* get_gravity_force(): gravity_strength * gravity_strength * 0.8, in 1/(Q * Q):
\* positive for every gravity strength that is not 0
GetGravityForce(g) == IF g = 0 THEN 0 ELSE RDiv(g * g * 8, 10)

\* Whether update() integrates the controller (it is outside the deadzone)
Moving(c) == Abs(c.value - Center * Q) * 10 > Q

\* update(), one controller: the integration branch
Integrated(c, gf) ==
  LET d   == c.value - Center * Q
      acc == RDiv(-d * RDiv(gf * 10, Q), 100 * Q)
      v   == RDiv((c.velocity + acc) * 98, 100)
  IN  [value |-> Clamp(0, 127 * Q, c.value + v), velocity |-> v]

\* a faulty variant of the next definition: a controller inside the deadzone is
\* left as it is
UpdateControllerNoSnap(c, gf) ==
  IF Moving(c) THEN Integrated(c, gf) ELSE c
\* update(), one controller
UpdateController(c, gf) ==
  IF Moving(c) THEN Integrated(c, gf)
  ELSE IF gf > 0 THEN [value |-> Center * Q, velocity |-> 0]
  ELSE c

\* the send_cc calls of update(), controllers i .. NumControllers - 1, in order
RECURSIVE UpdateSendsTo(_, _, _)
UpdateSendsTo(sink, i, new) ==
  IF i >= NumControllers THEN <<>>
  ELSE (IF Moving(controllers[i]) THEN SendCCTo(sink, CC(i), new[i].value) ELSE <<>>)
       \o UpdateSendsTo(sink, i + 1, new)
UpdateSends(i, new) == UpdateSendsTo(Sink, i, new)

\* a faulty variant of the next definition: update() returns at once when no
\* output is bound
GravityUpdatedNeedsSink(sink) ==
  LET gf  == GetGravityForce(gravity_strength)
      new == [i \in CtlIdx |-> UpdateController(controllers[i], gf)]
  IN  [controllers |-> IF sink = "none" THEN controllers ELSE new,
       emitted |-> UpdateSendsTo(sink, 0, new), raised |-> FALSE]
\* GravityModule.update() on the given output: the controllers afterwards, the
\* messages written, and whether a write raised. The loop stops at the first
\* write_short that raises: the controllers after that one are not reached.
GravityUpdated(sink) ==
  LET gf    == GetGravityForce(gravity_strength)
      new   == [i \in CtlIdx |-> UpdateController(controllers[i], gf)]
      tries == {i \in CtlIdx : Moving(controllers[i])
                               /\ SendCCTo(sink, CC(i), new[i].value) # <<>>}
      first == CHOOSE i \in tries : \A j \in tries : i <= j
      stop  == sink = "fail" /\ tries # {}
  IN  [controllers |-> IF stop THEN [i \in CtlIdx |-> IF i <= first THEN new[i]
                                                      ELSE controllers[i]]
                       ELSE new,
       emitted |-> IF stop THEN <<>> ELSE UpdateSendsTo(sink, 0, new),
       raised |-> stop]

\* GravityModule.update()
GravityUpdate ==
  /\ controllers' = GravityUpdated(Sink).controllers
  /\ emitted' = GravityUpdated(Sink).emitted
  /\ UNCHANGED <<gravity_strength, dragging_controller, dragging_gravity, mouse_offset>>

\* The first controller whose slider rectangle holds the pointer, or None
RECURSIVE HitController(_, _, _)
HitController(i, mx, my) ==
  IF i >= NumControllers THEN None
  ELSE IF CollidePoint(controller_start_x + i * controller_spacing, controller_y,
                       controller_width, controller_height, mx, my)
       THEN i
       ELSE HitController(i + 1, mx, my)

HitGravity(mx, my) ==
  CollidePoint(gravity_slider_x, gravity_slider_y,
               gravity_slider_width, gravity_slider_height, mx, my)

\* a faulty variant of the next definition: no offset is captured
ControllerOffsetNone(i, my) == 0
\* mouse_offset captured for controller i: mouse_y - handle_y
ControllerOffset(i, my) ==
  my * Q - HandleY(controller_y, controller_height, RDiv(controllers[i].value, 127))
GravityOffset(my) ==
  my * Q - HandleY(gravity_slider_y, gravity_slider_height, gravity_strength)

\* a faulty variant of the next definition: the press already moves the handle
\* of the controller it grabs to the pointer
GravityPressSnap(mx, my) ==
  LET i == HitController(0, mx, my)
      g == HitGravity(mx, my)
  IN  /\ dragging_controller' = IF i # None THEN i ELSE dragging_controller
      /\ dragging_gravity' = IF g THEN TRUE ELSE dragging_gravity
      /\ mouse_offset' = 0
      /\ controllers' = IF i # None
                        THEN [controllers EXCEPT ![i].value =
                                Normalized(controller_y, controller_height, my, 0) * 127]
                        ELSE controllers
      /\ emitted' = <<>>
      /\ UNCHANGED gravity_strength
\* handle_mouse_events, MOUSEBUTTONDOWN with button 1
GravityPress(mx, my) ==
  LET i == HitController(0, mx, my)
      g == HitGravity(mx, my)
  IN  /\ dragging_controller' = IF i # None THEN i ELSE dragging_controller
      /\ dragging_gravity' = IF g THEN TRUE ELSE dragging_gravity
      /\ mouse_offset' = IF g THEN GravityOffset(my)
                         ELSE IF i # None THEN ControllerOffset(i, my)
                         ELSE mouse_offset
      /\ emitted' = <<>>
      /\ UNCHANGED <<controllers, gravity_strength>>

\* a faulty variant of the next definition: the release puts the gravity
\* strength back to its default
GravityReleaseReset ==
  /\ dragging_controller' = None
  /\ dragging_gravity' = FALSE
  /\ gravity_strength' = RDiv(Q, 2)
  /\ emitted' = <<>>
  /\ UNCHANGED <<controllers, mouse_offset>>
\* handle_mouse_events, MOUSEBUTTONUP with button 1
GravityRelease ==
  /\ dragging_controller' = None
  /\ dragging_gravity' = FALSE
  /\ emitted' = <<>>
  /\ UNCHANGED <<controllers, gravity_strength, mouse_offset>>

\* a faulty variant of the next definition: the clamp is left out
DraggedValueNoClamp(my) ==
  NormalizedRaw(controller_y, controller_height, my, mouse_offset) * 127
\* the value a drag writes to the dragged controller (1/Q)
DraggedValue(my) ==
  Normalized(controller_y, controller_height, my, mouse_offset) * 127
\* the gravity strength a drag writes (1/Q)
DraggedGravity(my) ==
  Normalized(gravity_slider_y, gravity_slider_height, my, mouse_offset)

\* handle_mouse_events, MOUSEMOTION
GravityMotion(mx, my) ==
  IF dragging_controller # None
  THEN /\ controllers' = [controllers EXCEPT ![dragging_controller] =
                            [value |-> DraggedValue(my), velocity |-> 0]]
       /\ emitted' = SendCCTo(Sink, CC(dragging_controller), DraggedValue(my))
       /\ UNCHANGED <<gravity_strength, dragging_controller, dragging_gravity, mouse_offset>>
  ELSE IF dragging_gravity
  THEN /\ gravity_strength' = DraggedGravity(my)
       /\ emitted' = <<>>
       /\ UNCHANGED <<controllers, dragging_controller, dragging_gravity, mouse_offset>>
  ELSE /\ emitted' = <<>>
       /\ UNCHANGED <<gvars, mouse_offset>>

\* --------------------------------------------------------- particle.py
sim_width == 400
sim_height == 400
particle_radius == 15
max_speed_multiplier == 3
temp_slider_x == 500
temp_slider_y == 150
temp_slider_height == 200
temp_slider_width == 30
RedCC == <<74, 75>>
GreenCC == <<76, 77>>

\* get_speed_multiplier(): 1.0 + temperature * (max_speed_multiplier - 1.0) (1/Q)
GetSpeedMultiplier == Q + temperature * (max_speed_multiplier - 1)

\* math.sqrt(n), rounded to the nearest integer: the r >= 0 with
\* (2r - 1)^2 < 4n <= (2r + 1)^2, found by bisection in lo .. hi
RECURSIVE SqrtIn(_, _, _)
SqrtIn(n, lo, hi) ==
  IF lo >= hi THEN lo
  ELSE LET mid == (lo + hi) \div 2
       IN  IF mid * mid + mid >= n THEN SqrtIn(n, lo, mid) ELSE SqrtIn(n, mid + 1, hi)
Sqrt(n) == SqrtIn(n, 0, 46000)

\* The distance of the centers when both |dx| and |dy| are below r1 + r2
\* (otherwise the distance is at least r1 + r2 and the squares are not formed)
Near(p1, p2) ==
  /\ Abs(p1.x - p2.x) < 2 * particle_radius * Q
  /\ Abs(p1.y - p2.y) < 2 * particle_radius * Q
Distance(p1, p2) ==
  Sqrt((p1.x - p2.x) * (p1.x - p2.x) + (p1.y - p2.y) * (p1.y - p2.y))

\* check_particle_collision(p1, p2): distance < r1 + r2
CheckParticleCollision(p1, p2) ==
  Near(p1, p2) /\ Distance(p1, p2) < 2 * particle_radius * Q

\* a faulty variant of the next definition: particles with the same center
\* are pushed apart along the x axis
ResolveDegenerateAlongX(p1, p2) ==
  LET dx       == p1.x - p2.x
      dy       == p1.y - p2.y
      distance == Distance(p1, p2)
      nx       == IF distance = 0 THEN Q ELSE RDiv(dx * Q, distance)
      ny       == IF distance = 0 THEN 0 ELSE RDiv(dy * Q, distance)
      overlap  == 2 * particle_radius * Q - distance
      sx       == RDiv(MulQ(nx, overlap), 2)
      sy       == RDiv(MulQ(ny, overlap), 2)
      speed    == MulQ(p1.vx - p2.vx, nx) + MulQ(p1.vy - p2.vy, ny)
      q1       == [p1 EXCEPT !.x = @ + sx, !.y = @ + sy]
      q2       == [p2 EXCEPT !.x = @ - sx, !.y = @ - sy]
  IN  IF speed > 0 THEN <<q1, q2>>
      ELSE <<[q1 EXCEPT !.vx = @ - MulQ(speed, nx), !.vy = @ - MulQ(speed, ny)],
             [q2 EXCEPT !.vx = @ + MulQ(speed, nx), !.vy = @ + MulQ(speed, ny)]>>
\* a faulty variant of the next definition: the velocities are exchanged and
\* the particles are left where they overlap
ResolveNoSeparation(p1, p2) ==
  LET dx       == p1.x - p2.x
      dy       == p1.y - p2.y
      distance == Distance(p1, p2)
  IN  IF distance = 0 THEN <<p1, p2>>
      ELSE
      LET nx    == RDiv(dx * Q, distance)
          ny    == RDiv(dy * Q, distance)
          speed == MulQ(p1.vx - p2.vx, nx) + MulQ(p1.vy - p2.vy, ny)
      IN  IF speed > 0 THEN <<p1, p2>>
          ELSE <<[p1 EXCEPT !.vx = @ - MulQ(speed, nx), !.vy = @ - MulQ(speed, ny)],
                 [p2 EXCEPT !.vx = @ + MulQ(speed, nx), !.vy = @ + MulQ(speed, ny)]>>
\* a faulty variant of the next definition: approaching particles trade their
\* whole velocities, not only the components along the line of centers
ResolveSwapVelocities(p1, p2) ==
  LET dx       == p1.x - p2.x
      dy       == p1.y - p2.y
      distance == Distance(p1, p2)
  IN  IF distance = 0 THEN <<p1, p2>>
      ELSE
      LET nx      == RDiv(dx * Q, distance)
          ny      == RDiv(dy * Q, distance)
          overlap == 2 * particle_radius * Q - distance
          sx      == RDiv(MulQ(nx, overlap), 2)
          sy      == RDiv(MulQ(ny, overlap), 2)
          speed   == MulQ(p1.vx - p2.vx, nx) + MulQ(p1.vy - p2.vy, ny)
          q1      == [p1 EXCEPT !.x = @ + sx, !.y = @ + sy]
          q2      == [p2 EXCEPT !.x = @ - sx, !.y = @ - sy]
      IN  IF speed > 0 THEN <<q1, q2>>
          ELSE <<[q1 EXCEPT !.vx = p2.vx, !.vy = p2.vy],
                 [q2 EXCEPT !.vx = p1.vx, !.vy = p1.vy]>>
\* a faulty variant of the next definition: the velocities are exchanged along
\* the normal whether the particles approach or not
ResolveAlwaysExchange(p1, p2) ==
  LET dx       == p1.x - p2.x
      dy       == p1.y - p2.y
      distance == Distance(p1, p2)
  IN  IF distance = 0 THEN <<p1, p2>>
      ELSE
      LET nx      == RDiv(dx * Q, distance)
          ny      == RDiv(dy * Q, distance)
          overlap == 2 * particle_radius * Q - distance
          sx      == RDiv(MulQ(nx, overlap), 2)
          sy      == RDiv(MulQ(ny, overlap), 2)
          speed   == MulQ(p1.vx - p2.vx, nx) + MulQ(p1.vy - p2.vy, ny)
          q1      == [p1 EXCEPT !.x = @ + sx, !.y = @ + sy]
          q2      == [p2 EXCEPT !.x = @ - sx, !.y = @ - sy]
      IN  <<[q1 EXCEPT !.vx = @ - MulQ(speed, nx), !.vy = @ - MulQ(speed, ny)],
            [q2 EXCEPT !.vx = @ + MulQ(speed, nx), !.vy = @ + MulQ(speed, ny)]>>
\* resolve_particle_collision(p1, p2): the two particles afterwards
ResolveParticleCollision(p1, p2) ==
  LET dx       == p1.x - p2.x
      dy       == p1.y - p2.y
      distance == Distance(p1, p2)
  IN  IF distance = 0 THEN <<p1, p2>>
      ELSE
      LET nx      == RDiv(dx * Q, distance)
          ny      == RDiv(dy * Q, distance)
          overlap == 2 * particle_radius * Q - distance
          sx      == RDiv(MulQ(nx, overlap), 2)
          sy      == RDiv(MulQ(ny, overlap), 2)
          speed   == MulQ(p1.vx - p2.vx, nx) + MulQ(p1.vy - p2.vy, ny)
          q1      == [p1 EXCEPT !.x = @ + sx, !.y = @ + sy]
          q2      == [p2 EXCEPT !.x = @ - sx, !.y = @ - sy]
      IN  IF speed > 0 THEN <<q1, q2>>
          ELSE <<[q1 EXCEPT !.vx = @ - MulQ(speed, nx), !.vy = @ - MulQ(speed, ny)],
                 [q2 EXCEPT !.vx = @ + MulQ(speed, nx), !.vy = @ + MulQ(speed, ny)]>>

\* a faulty variant of the next definition: the particle is put on the wall
\* and keeps its velocity
BounceSticks(pos, vel, size) ==
  <<Clamp(particle_radius * Q, (size - particle_radius) * Q, pos), vel>>
\* the boundary test of update_particle on one axis: <<position, velocity>>
Bounce(pos, vel, size) ==
  IF pos <= particle_radius * Q THEN <<particle_radius * Q, Abs(vel)>>
  ELSE IF pos >= (size - particle_radius) * Q THEN <<(size - particle_radius) * Q, -Abs(vel)>>
  ELSE <<pos, vel>>

\* update_particle(particle)
UpdateParticle(p) ==
  LET bx == Bounce(p.x + MulQ(p.vx, GetSpeedMultiplier), p.vx, sim_width)
      by == Bounce(p.y + MulQ(p.vy, GetSpeedMultiplier), p.vy, sim_height)
  IN  [x |-> bx[1], y |-> by[1], vx |-> bx[2], vy |-> by[2]]

\* send_particle_midi(particle): int((x / sim_width) * 127), clamped, per axis
AxisMidi(pos, size) == Clamp(0, 127, Trunc(pos * 127, size * Q))
SendParticleMidiTo(sink, p, cc) ==
  SendCCTo(sink, cc[1], AxisMidi(p.x, sim_width) * Q)
  \o SendCCTo(sink, cc[2], AxisMidi(p.y, sim_height) * Q)
SendParticleMidi(p, cc) == SendParticleMidiTo(Sink, p, cc)
\* the controller numbers of the red and of the green particle: cc_x, cc_y
RedNumbers == <<cc_numbers[1], cc_numbers[2]>>
GreenNumbers == <<cc_numbers[3], cc_numbers[4]>>

\* a faulty variant of the next definition: update() returns at once when no
\* output is bound
ParticleUpdatedNeedsSink(sink) ==
  LET r1 == UpdateParticle(red_particle)
      g1 == UpdateParticle(green_particle)
  IN  [red |-> IF sink = "none" THEN red_particle ELSE r1,
       green |-> IF sink = "none" THEN green_particle ELSE g1,
       emitted |-> <<>>, raised |-> FALSE]
\* ParticleModule.update() on the given output: the particles afterwards, the
\* messages written, and whether a write raised (the first one does, when the
\* output fails: the particles have been moved by then)
ParticleUpdated(sink) ==
  LET r1    == UpdateParticle(red_particle)
      g1    == UpdateParticle(green_particle)
      both  == IF CheckParticleCollision(r1, g1)
               THEN ResolveParticleCollision(r1, g1) ELSE <<r1, g1>>
      sends == SendParticleMidiTo(sink, both[1], RedNumbers)
               \o SendParticleMidiTo(sink, both[2], GreenNumbers)
      stop  == sink = "fail" /\ sends # <<>>
  IN  [red |-> both[1], green |-> both[2],
       emitted |-> IF stop THEN <<>> ELSE sends, raised |-> stop]

\* ParticleModule.update()
ParticleUpdate ==
  /\ red_particle' = ParticleUpdated(Sink).red
  /\ green_particle' = ParticleUpdated(Sink).green
  /\ emitted' = ParticleUpdated(Sink).emitted
  /\ UNCHANGED <<temperature, dragging_temperature, mouse_offset>>

HitTemperature(mx, my) ==
  CollidePoint(temp_slider_x, temp_slider_y, temp_slider_width, temp_slider_height, mx, my)
TemperatureOffset(my) == my * Q - HandleY(temp_slider_y, temp_slider_height, temperature)

\* handle_mouse_events, MOUSEBUTTONDOWN with button 1
ParticlePress(mx, my) ==
  /\ dragging_temperature' = IF HitTemperature(mx, my) THEN TRUE ELSE dragging_temperature
  /\ mouse_offset' = IF HitTemperature(mx, my) THEN TemperatureOffset(my) ELSE mouse_offset
  /\ emitted' = <<>>
  /\ UNCHANGED <<red_particle, green_particle, temperature>>

\* handle_mouse_events, MOUSEBUTTONUP with button 1
ParticleRelease ==
  /\ dragging_temperature' = FALSE
  /\ emitted' = <<>>
  /\ UNCHANGED <<red_particle, green_particle, temperature, mouse_offset>>

\* the temperature a drag writes (1/Q)
DraggedTemperature(my) == Normalized(temp_slider_y, temp_slider_height, my, mouse_offset)

\* handle_mouse_events, MOUSEMOTION
ParticleMotion(mx, my) ==
  /\ temperature' = IF dragging_temperature THEN DraggedTemperature(my) ELSE temperature
  /\ emitted' = <<>>
  /\ UNCHANGED <<red_particle, green_particle, dragging_temperature, mouse_offset>>

\* --------------------------------------------------------- pendulum.py
\* Resolution of angles (units per radian) and of sines and cosines
AQ == Q * Q
TQ == Q
\* math.pi, as 355/113 (1/AQ)
PiA == RDiv(355 * AQ, 113)
max_length == 300
min_length == 100
InitialLength == 200
pivot_x == 400
pivot_y == 150
bob_radius == 20
length_slider_x == 550
length_slider_y == 150
length_slider_height == 200
length_slider_width == 30
mode_button_x == 550
mode_button_y == 400
mode_button_width == 120
mode_button_height == 40
NumOutputModes == 2
DefaultCC == 74
\* self.gravity = 0.5 (1/Q)
PendulumGravity == RDiv(Q, 2)

\* math.sin(a), a in 1/AQ, the result in 1/TQ: the argument is reduced to
\* [-pi/2, pi/2] and the Taylor polynomial to x^7 is evaluated by Horner's rule
SinReduced(x) ==
  LET x2 == RDiv(x * x, TQ)
      t3 == TQ - RDiv(x2, 42)
      t2 == TQ - RDiv(RDiv(x2 * t3, TQ), 20)
      t1 == TQ - RDiv(RDiv(x2 * t2, TQ), 6)
  IN  RDiv(x * t1, TQ)
Sin(a) ==
  LET r == a % (2 * PiA)
      x == IF 2 * r <= PiA THEN r
           ELSE IF 2 * r <= 3 * PiA THEN PiA - r
           ELSE r - 2 * PiA
  IN  SinReduced(RDiv(x, AQ \div TQ))
\* math.cos(a)
Cos(a) == Sin(a + RDiv(PiA, 2))

\* math.atan2(dx, dy) for dy > 0, in 1/AQ: the angle t in [-pi/2, pi/2] (on the
\* 1/TQ grid) at which sin(t) * dy - cos(t) * dx changes sign, by bisection
RECURSIVE AtanIn(_, _, _, _)
AtanIn(dx, dy, lo, hi) ==
  IF hi - lo <= 1
  THEN (IF Abs(Sin(lo * (AQ \div TQ)) * dy - Cos(lo * (AQ \div TQ)) * dx)
           <= Abs(Sin(hi * (AQ \div TQ)) * dy - Cos(hi * (AQ \div TQ)) * dx)
        THEN lo ELSE hi) * (AQ \div TQ)
  ELSE LET mid == (lo + hi) \div 2
       IN  IF Sin(mid * (AQ \div TQ)) * dy - Cos(mid * (AQ \div TQ)) * dx < 0
           THEN AtanIn(dx, dy, mid, hi)
           ELSE AtanIn(dx, dy, lo, mid)
Atan2(dx, dy) ==
  AtanIn(dx, dy, -RDiv(PiA, 2 * (AQ \div TQ)), RDiv(PiA, 2 * (AQ \div TQ)))

\* calculate_pendulum_position(): <<x, y>> of the bob (1/Q pixel)
CalculatePendulumPosition(len, a) ==
  <<pivot_x * Q + RDiv(len * Sin(a), TQ), pivot_y * Q + RDiv(len * Cos(a), TQ)>>

\* a faulty variant of the next definition: the angular velocity is divided by
\* the damping factor
UpdatePhysicsDividing(len, a, w) ==
  LET acc == RDiv(-RDiv(RDiv(PendulumGravity * AQ, len) * Sin(a), TQ), 10)
      w1  == RDiv((w + acc) * 1000, 999)
  IN  <<a + w1, w1>>
\* update_physics(): <<angle, angular_velocity>> after one step
UpdatePhysics(len, a, w) ==
  LET acc == RDiv(-RDiv(RDiv(PendulumGravity * AQ, len) * Sin(a), TQ), 10)
      w1  == RDiv((w + acc) * 999, 1000)
  IN  <<a + w1, w1>>

\* send_pitch_bend(value): the write_short calls made
SendPitchBendTo(sink, value) ==
  LET pitch_value == Clamp(0, 16383, value + 8192)
  IN  IF sink # "none"
      THEN <<[type |-> "pitch", lsb |-> pitch_value % 128,
              msb |-> (pitch_value \div 128) % 128]>>
      ELSE <<>>

SendPitchBend(value) == SendPitchBendTo(Sink, value)

\* a faulty variant of the next definition: the control change is written in
\* both modes, and the pitch bend after it in mode 1
GenerateMidiOutputBoth(sink, mode, len, a) ==
  LET bob_x == CalculatePendulumPosition(len, a)[1]
      relative_x == bob_x - (pivot_x * Q - len)
      normalized == RDiv(relative_x * Q, 2 * len)
      cc_value   == Clamp(0, 127, Trunc(normalized * 127, Q))
      centered   == RDiv((bob_x - pivot_x * Q) * Q, len)
      pitch_value == Clamp(-8192, 8191, Trunc(centered * 8192, Q))
  IN  SendCCTo(sink, cc_numbers[1], cc_value * Q)
        \o (IF mode = 0 THEN <<>> ELSE SendPitchBendTo(sink, pitch_value))
\* generate_midi_output(): the write_short calls made for arm length len and
\* angle a
GenerateMidiOutputTo(sink, mode, len, a) ==
  LET bob_x == CalculatePendulumPosition(len, a)[1]
  IN  IF mode = 0
      THEN LET relative_x == bob_x - (pivot_x * Q - len)
               normalized == RDiv(relative_x * Q, 2 * len)
               cc_value   == Clamp(0, 127, Trunc(normalized * 127, Q))
           IN  SendCCTo(sink, cc_numbers[1], cc_value * Q)
      ELSE LET relative_x  == bob_x - pivot_x * Q
               normalized  == RDiv(relative_x * Q, len)
               pitch_value == Clamp(-8192, 8191, Trunc(normalized * 8192, Q))
           IN  SendPitchBendTo(sink, pitch_value)
GenerateMidiOutput(mode, len, a) == GenerateMidiOutputTo(Sink, mode, len, a)

\* a faulty variant of the next definition: update() returns at once when no
\* output is bound
PendulumUpdatedNeedsSink(sink) ==
  LET next == IF dragging_pendulum \/ sink = "none" THEN <<angle, angular_velocity>>
              ELSE UpdatePhysics(length, angle, angular_velocity)
  IN  [angle |-> next[1], angular_velocity |-> next[2],
       emitted |-> GenerateMidiOutputTo(sink, current_mode, length, next[1]),
       raised |-> FALSE]
\* PendulumModule.update() on the given output: angle and angular velocity
\* afterwards, the messages written, and whether the write raised
PendulumUpdated(sink) ==
  LET next  == IF dragging_pendulum THEN <<angle, angular_velocity>>
               ELSE UpdatePhysics(length, angle, angular_velocity)
      sends == GenerateMidiOutputTo(sink, current_mode, length, next[1])
      stop  == sink = "fail" /\ sends # <<>>
  IN  [angle |-> next[1], angular_velocity |-> next[2],
       emitted |-> IF stop THEN <<>> ELSE sends, raised |-> stop]

\* a faulty variant of the next definition: the physics runs in every frame
PendulumUpdateAlways ==
  LET next == UpdatePhysics(length, angle, angular_velocity)
  IN  /\ angle' = next[1]
      /\ angular_velocity' = next[2]
      /\ emitted' = GenerateMidiOutput(current_mode, length, next[1])
      /\ UNCHANGED <<length, current_mode, dragging_length, dragging_pendulum, mouse_offset>>
\* PendulumModule.update()
PendulumUpdate ==
  /\ angle' = PendulumUpdated(Sink).angle
  /\ angular_velocity' = PendulumUpdated(Sink).angular_velocity
  /\ emitted' = PendulumUpdated(Sink).emitted
  /\ UNCHANGED <<length, current_mode, dragging_length, dragging_pendulum, mouse_offset>>

HitLength(mx, my) ==
  CollidePoint(length_slider_x, length_slider_y,
               length_slider_width, length_slider_height, mx, my)
HitModeButton(mx, my) ==
  CollidePoint(mode_button_x, mode_button_y, mode_button_width, mode_button_height, mx, my)
\* bob_distance < bob_radius * 2, compared as squares in units of 100/Q pixel
HitBob(mx, my) ==
  LET bob == CalculatePendulumPosition(length, angle)
      dx  == RDiv(mx * Q - bob[1], 100)
      dy  == RDiv(my * Q - bob[2], 100)
  IN  dx * dx + dy * dy < ((2 * bob_radius * Q) * (2 * bob_radius * Q)) \div 10000

\* length_norm = (length - min_length) / (max_length - min_length) (1/Q)
LengthNorm == RDiv(length - min_length * Q, max_length - min_length)
LengthOffset(my) == my * Q - HandleY(length_slider_y, length_slider_height, LengthNorm)

\* handle_mouse_events, MOUSEBUTTONDOWN with button 1
PendulumPress(mx, my) ==
  /\ dragging_length' = IF HitLength(mx, my) THEN TRUE ELSE dragging_length
  /\ mouse_offset' = IF HitLength(mx, my) THEN LengthOffset(my) ELSE mouse_offset
  /\ current_mode' = IF HitModeButton(mx, my)
                     THEN (current_mode + 1) % NumOutputModes ELSE current_mode
  /\ dragging_pendulum' = IF HitBob(mx, my) THEN TRUE ELSE dragging_pendulum
  /\ angular_velocity' = IF HitBob(mx, my) THEN 0 ELSE angular_velocity
  /\ emitted' = <<>>
  /\ UNCHANGED <<length, angle>>

\* handle_mouse_events, MOUSEBUTTONUP with button 1
PendulumRelease ==
  /\ dragging_pendulum' = FALSE
  /\ dragging_length' = FALSE
  /\ emitted' = <<>>
  /\ UNCHANGED <<length, angle, angular_velocity, current_mode, mouse_offset>>

\* the arm length a drag writes (1/Q)
DraggedLength(my) ==
  min_length * Q
  + Normalized(length_slider_y, length_slider_height, my, mouse_offset)
    * (max_length - min_length)
\* max_angle = math.pi * 0.8 (1/AQ)
MaxAngle == RDiv(PiA * 8, 10)
\* the angle a drag writes (1/AQ), for dy > 0
DraggedAngle(mx, my) == Clamp(-MaxAngle, MaxAngle, Atan2(mx - pivot_x, my - pivot_y))

\* handle_mouse_events, MOUSEMOTION
PendulumMotion(mx, my) ==
  /\ length' = IF dragging_length THEN DraggedLength(my) ELSE length
  /\ angle' = IF ~dragging_length /\ dragging_pendulum /\ my - pivot_y > 0
              THEN DraggedAngle(mx, my) ELSE angle
  /\ emitted' = <<>>
  /\ UNCHANGED <<angular_velocity, current_mode, dragging_length, dragging_pendulum,
                 mouse_offset>>

\* ------------------------------------------------------ the run loops
\* Pointer positions (pygame.mouse.get_pos()) tried in each module: inside and
\* outside every hit region, and far enough apart to drive a slider past its ends
GravityPointers == {120, 270, 610} \X {150, 210, 350, 490}
ParticlePointers == {510} \X {100, 160, 250, 340}
\* the pixel nearest to the bob, and two points of its hit area off its center
BobPixel == <<RDiv(CalculatePendulumPosition(length, angle)[1], Q),
              RDiv(CalculatePendulumPosition(length, angle)[2], Q)>>
PendulumPointers ==
  {<<560, 160>>, <<560, 340>>, <<600, 420>>, <<250, 300>>,
   BobPixel, <<BobPixel[1] + 20, BobPixel[2] - 10>>,
   <<BobPixel[1] - 20, BobPixel[2] + 10>>}

\* __init__ of the three classes; the particles start at one of a few of the
\* positions and velocities random.randint and random.uniform can draw
InitialParticles ==
  { <<[x |-> 100 * Q, y |-> 200 * Q, vx |-> RDiv(5 * Q, 2), vy |-> 0],
      [x |-> 140 * Q, y |-> 200 * Q, vx |-> -RDiv(5 * Q, 2), vy |-> 0]>>,
    <<[x |-> 50 * Q, y |-> 60 * Q, vx |-> -3 * Q, vy |-> -2 * Q],
      [x |-> 300 * Q, y |-> 350 * Q, vx |-> Q, vy |-> 3 * Q]>> }

\* the controller numbers the constructors assign, in prompt order
DefaultNumbers ==
  CASE module = "gravity"  -> ControllerCC
    [] module = "particle" -> RedCC \o GreenCC
    [] module = "pendulum" -> <<DefaultCC>>

InitProgramWith(particles) ==
  /\ emitted = <<>>
  /\ ticks = 0
  /\ nev = 0
  /\ button_down = FALSE
  /\ mouse_offset = 0
  /\ controllers = [i \in CtlIdx |-> [value |-> Center * Q, velocity |-> 0]]
  /\ gravity_strength = RDiv(Q, 2)
  /\ dragging_controller = None
  /\ dragging_gravity = FALSE
  /\ \E ps \in particles :
       /\ red_particle = (IF module = "particle" THEN ps[1] ELSE [x |-> 0, y |-> 0, vx |-> 0, vy |-> 0])
       /\ green_particle = (IF module = "particle" THEN ps[2] ELSE [x |-> 0, y |-> 0, vx |-> 0, vy |-> 0])
  /\ temperature = RDiv(Q, 2)
  /\ dragging_temperature = FALSE
  /\ length = InitialLength * Q
  /\ angle = RDiv(PiA, 4)
  /\ angular_velocity = 0
  /\ current_mode = 0
  /\ dragging_length = FALSE
  /\ dragging_pendulum = FALSE
  /\ lastEvent = "init"
  /\ prevEvent = "init"
  /\ lastPos = <<0, 0>>
  /\ pressPos = <<0, 0>>
  /\ pressTarget = <<"none", 0>>
  /\ pressValue = 0
  /\ pressAngle = 0
  /\ cc_numbers = DefaultNumbers
  /\ prompt = 0
  /\ bad_input = FALSE

InitProgram == InitProgramWith(InitialParticles)

\* run() is entered with the configuration main() makes when every prompt is
\* answered with the Enter key: the defaults, on a bound output
Init ==
  /\ module \in {"gravity", "particle", "pendulum"}
  /\ midi_out = TRUE
  /\ stage = "run"
  /\ InitProgram

\* The main specification handles at most MaxEvents pointer events
Counted ==
  /\ nev < MaxEvents
  /\ nev' = nev + 1

\* One more event of pygame.event.get() is handled
Handled(kind) ==
  /\ stage = "run"
  /\ lastEvent' = kind
  /\ prevEvent' = lastEvent
  /\ UNCHANGED <<module, midi_out, ticks, cvars>>

Pressed(pos, target, value) ==
  /\ Handled("press")
  /\ ~button_down
  /\ button_down' = TRUE
  /\ lastPos' = pos
  /\ pressPos' = pos
  /\ pressTarget' = target
  /\ pressValue' = value
  /\ pressAngle' = angle

Moved(pos) ==
  /\ Handled("motion")
  /\ lastPos' = pos
  /\ UNCHANGED <<button_down, pressPos, pressTarget, pressValue, pressAngle>>

Released ==
  /\ Handled("release")
  /\ button_down
  /\ button_down' = FALSE
  /\ UNCHANGED <<lastPos, pressPos, pressTarget, pressValue, pressAngle>>

\* The events are drained: update() runs and the next frame begins
Frame ==
  /\ stage = "run"
  /\ ticks' = ticks + 1
  /\ lastEvent' = "tick"
  /\ prevEvent' = lastEvent
  /\ UNCHANGED <<module, midi_out, nev, button_down, lastPos, pressPos, pressTarget,
                 pressValue, pressAngle, cvars>>

\* What a press at pos grabs in the gravity module, and the value it has
GravityTarget(pos) ==
  IF HitController(0, pos[1], pos[2]) # None
  THEN <<"controller", HitController(0, pos[1], pos[2])>>
  ELSE IF HitGravity(pos[1], pos[2]) THEN <<"gravity", 0>> ELSE <<"none", 0>>
GravityTargetValue(pos) ==
  IF HitController(0, pos[1], pos[2]) # None
  THEN controllers[HitController(0, pos[1], pos[2])].value
  ELSE IF HitGravity(pos[1], pos[2]) THEN gravity_strength ELSE 0

GravityPressStep ==
  /\ module = "gravity"
  /\ Counted
  /\ \E pos \in GravityPointers :
       /\ Pressed(pos, GravityTarget(pos), GravityTargetValue(pos))
       /\ GravityPress(pos[1], pos[2])
  /\ UNCHANGED <<tvars, pvars>>

GravityMotionStep ==
  /\ module = "gravity"
  /\ Counted
  /\ \E pos \in GravityPointers : Moved(pos) /\ GravityMotion(pos[1], pos[2])
  /\ UNCHANGED <<tvars, pvars>>

GravityReleaseStep ==
  /\ module = "gravity"
  /\ Counted
  /\ Released
  /\ GravityRelease
  /\ UNCHANGED <<tvars, pvars>>

GravityTick ==
  /\ module = "gravity"
  /\ ticks < MaxTicks
  /\ Frame
  /\ GravityUpdate
  /\ UNCHANGED <<tvars, pvars>>

ParticlePressStep ==
  /\ module = "particle"
  /\ Counted
  /\ \E pos \in ParticlePointers :
       /\ Pressed(pos, IF HitTemperature(pos[1], pos[2])
                       THEN <<"temperature", 0>> ELSE <<"none", 0>>,
                  IF HitTemperature(pos[1], pos[2]) THEN temperature ELSE 0)
       /\ ParticlePress(pos[1], pos[2])
  /\ UNCHANGED <<gvars, pvars>>

ParticleMotionStep ==
  /\ module = "particle"
  /\ Counted
  /\ \E pos \in ParticlePointers : Moved(pos) /\ ParticleMotion(pos[1], pos[2])
  /\ UNCHANGED <<gvars, pvars>>

ParticleReleaseStep ==
  /\ module = "particle"
  /\ Counted
  /\ Released
  /\ ParticleRelease
  /\ UNCHANGED <<gvars, pvars>>

ParticleTick ==
  /\ module = "particle"
  /\ ticks < MaxTicks
  /\ Frame
  /\ ParticleUpdate
  /\ UNCHANGED <<gvars, pvars>>

\* What a press at pos grabs in the pendulum module
PendulumTarget(pos) ==
  <<IF HitLength(pos[1], pos[2]) THEN "length"
    ELSE IF HitBob(pos[1], pos[2]) THEN "bob"
    ELSE IF HitModeButton(pos[1], pos[2]) THEN "mode" ELSE "none",
    IF HitLength(pos[1], pos[2]) /\ HitBob(pos[1], pos[2]) THEN 1 ELSE 0>>

PendulumPressStep ==
  /\ module = "pendulum"
  /\ Counted
  /\ \E pos \in PendulumPointers :
       /\ Pressed(pos, PendulumTarget(pos), IF HitLength(pos[1], pos[2]) THEN length ELSE 0)
       /\ PendulumPress(pos[1], pos[2])
  /\ UNCHANGED <<gvars, tvars>>

PendulumMotionStep ==
  /\ module = "pendulum"
  /\ Counted
  /\ \E pos \in PendulumPointers : Moved(pos) /\ PendulumMotion(pos[1], pos[2])
  /\ UNCHANGED <<gvars, tvars>>

PendulumReleaseStep ==
  /\ module = "pendulum"
  /\ Counted
  /\ Released
  /\ PendulumRelease
  /\ UNCHANGED <<gvars, tvars>>

PendulumTick ==
  /\ module = "pendulum"
  /\ ticks < MaxTicks
  /\ Frame
  /\ PendulumUpdate
  /\ UNCHANGED <<gvars, tvars>>

Next ==
  \/ GravityPressStep
  \/ GravityMotionStep
  \/ GravityReleaseStep
  \/ GravityTick
  \/ ParticlePressStep
  \/ ParticleMotionStep
  \/ ParticleReleaseStep
  \/ ParticleTick
  \/ PendulumPressStep
  \/ PendulumMotionStep
  \/ PendulumReleaseStep
  \/ PendulumTick

Spec == Init /\ [][Next]_vars

\* ------------------------------------------- a user who pumps the swing
\* The pendulum program under a user who works to a plan: shorten the arm and
\* let the bob go from the side, lengthen the arm as the bob passes the bottom,
\* then shorten it again and catch the bob. Each step of the plan is one pointer
\* event, handled in the frame the step names, at one of the places it names.
PumpMaxTicks == 200

Place(name) ==
  CASE name = "slider" -> <<560, 340>>
    [] name = "above"  -> <<560, 0>>
    [] name = "below"  -> <<560, 599>>
    [] name = "side"   -> <<700, 155>>
    [] name = "low"    -> <<500, 400>>
    [] name = "away"   -> <<250, 300>>
    [] name = "bob"    -> BobPixel

PumpPlan ==
  << [at |-> 0,   kind |-> "press",   on |-> {"slider"}],
     [at |-> 0,   kind |-> "motion",  on |-> {"below", "above"}],
     [at |-> 0,   kind |-> "release", on |-> {}],
     [at |-> 0,   kind |-> "press",   on |-> {"bob"}],
     [at |-> 0,   kind |-> "motion",  on |-> {"side", "low"}],
     [at |-> 0,   kind |-> "release", on |-> {}],
     [at |-> 84,  kind |-> "press",   on |-> {"slider"}],
     [at |-> 84,  kind |-> "motion",  on |-> {"above", "below"}],
     [at |-> 198, kind |-> "motion",  on |-> {"below"}],
     [at |-> 198, kind |-> "release", on |-> {}],
     [at |-> 198, kind |-> "press",   on |-> {"bob", "away"}] >>

\* the display is 800 x 600: pygame.mouse.get_pos() is a pixel of the window
InWindow(pos) == 0 <= pos[1] /\ pos[1] < 800 /\ 0 <= pos[2] /\ pos[2] < 600

\* The next step of the plan is an event of this kind, due in this frame
Due(kind) ==
  /\ module = "pendulum"
  /\ nev < Len(PumpPlan)
  /\ PumpPlan[nev + 1].at = ticks
  /\ PumpPlan[nev + 1].kind = kind
  /\ nev' = nev + 1
DuePlaces == {Place(name) : name \in PumpPlan[nev + 1].on}

PumpPressStep ==
  /\ Due("press")
  /\ \E pos \in DuePlaces :
       /\ InWindow(pos)
       /\ Pressed(pos, PendulumTarget(pos), IF HitLength(pos[1], pos[2]) THEN length ELSE 0)
       /\ PendulumPress(pos[1], pos[2])
  /\ UNCHANGED <<gvars, tvars>>

PumpMotionStep ==
  /\ Due("motion")
  /\ \E pos \in DuePlaces : Moved(pos) /\ PendulumMotion(pos[1], pos[2])
  /\ UNCHANGED <<gvars, tvars>>

PumpReleaseStep ==
  /\ Due("release")
  /\ Released
  /\ PendulumRelease
  /\ UNCHANGED <<gvars, tvars>>

\* a frame without events: no step of the plan is due in it
PumpTick ==
  /\ module = "pendulum"
  /\ ticks < PumpMaxTicks
  /\ nev < Len(PumpPlan) => PumpPlan[nev + 1].at > ticks
  /\ Frame
  /\ PendulumUpdate
  /\ UNCHANGED <<gvars, tvars>>

InitPump ==
  /\ module = "pendulum"
  /\ midi_out = TRUE
  /\ stage = "run"
  /\ InitProgram

NextPump ==
  \/ PumpPressStep
  \/ PumpMotionStep
  \/ PumpReleaseStep
  \/ PumpTick

SpecPump == InitPump /\ [][NextPump]_vars

\* ------------------------------------------------- run() without an output
\* run() on an object that connect_midi() never bound an output to: midi_out
\* keeps the None the constructor gave it, and send_cc and send_pitch_bend
\* skip their writes
InitNoSink ==
  /\ module \in {"gravity", "particle", "pendulum"}
  /\ midi_out = FALSE
  /\ stage = "run"
  /\ InitProgram

SpecNoSink == InitNoSink /\ [][Next]_vars

\* ------------------------------------------------ an output whose write raises
\* write_short of the bound output may raise (the device was unplugged, the
\* port closed). send_cc, send_pitch_bend, update() and run() have no handler
\* for it: the exception leaves run() and main(), and the loop is over.
Raised ==
  /\ stage = "run"
  /\ midi_out
  /\ stage' = "raised"
  /\ prevEvent' = lastEvent
  /\ emitted' = <<>>
  /\ UNCHANGED <<module, midi_out, prompt, cc_numbers, bad_input, button_down,
                 pressPos, pressTarget, pressValue, pressAngle>>

\* update() of the gravity module raises at the first controller it sends:
\* the controllers before it and that one are updated, the later ones are not
GravityTickFail ==
  /\ module = "gravity"
  /\ ticks < MaxTicks
  /\ GravityUpdated("fail").raised
  /\ Raised
  /\ lastEvent' = "tick"
  /\ ticks' = ticks + 1
  /\ controllers' = GravityUpdated("fail").controllers
  /\ UNCHANGED <<gravity_strength, dragging_controller, dragging_gravity, mouse_offset,
                 nev, lastPos, tvars, pvars>>

\* the drag of a controller raises in its send_cc, after value and velocity
\* are written
GravityMotionFail ==
  /\ module = "gravity"
  /\ nev < MaxEvents
  /\ dragging_controller # None
  /\ \E pos \in GravityPointers :
       /\ SendCCTo("fail", CC(dragging_controller), DraggedValue(pos[2])) # <<>>
       /\ controllers' = [controllers EXCEPT ![dragging_controller] =
                            [value |-> DraggedValue(pos[2]), velocity |-> 0]]
       /\ lastPos' = pos
  /\ Raised
  /\ lastEvent' = "motion"
  /\ nev' = nev + 1
  /\ UNCHANGED <<gravity_strength, dragging_controller, dragging_gravity, mouse_offset,
                 ticks, tvars, pvars>>

\* update() of the particle module raises in its first send, after both
\* particles are moved
ParticleTickFail ==
  /\ module = "particle"
  /\ ticks < MaxTicks
  /\ ParticleUpdated("fail").raised
  /\ Raised
  /\ lastEvent' = "tick"
  /\ ticks' = ticks + 1
  /\ red_particle' = ParticleUpdated("fail").red
  /\ green_particle' = ParticleUpdated("fail").green
  /\ UNCHANGED <<temperature, dragging_temperature, mouse_offset, nev, lastPos,
                 gvars, pvars>>

\* update() of the pendulum module raises in generate_midi_output, after
\* update_physics
PendulumTickFail ==
  /\ module = "pendulum"
  /\ ticks < MaxTicks
  /\ PendulumUpdated("fail").raised
  /\ Raised
  /\ lastEvent' = "tick"
  /\ ticks' = ticks + 1
  /\ angle' = PendulumUpdated("fail").angle
  /\ angular_velocity' = PendulumUpdated("fail").angular_velocity
  /\ UNCHANGED <<length, current_mode, dragging_length, dragging_pendulum, mouse_offset,
                 nev, lastPos, gvars, tvars>>

NextFail ==
  \/ Next
  \/ GravityTickFail
  \/ GravityMotionFail
  \/ ParticleTickFail
  \/ PendulumTickFail

SpecFail == Init /\ [][NextFail]_vars

\* ------------------------------------------------------- main(): the prompts
\* What the user types at a prompt, stripped
Inputs == {"", "abc", "-1", "0", "1", "2", "3", "127", "128"}
\* int(text) raises ValueError
NotANumber(text) == text = "abc"
\* int(text) for the other non-empty inputs
IntOf(text) ==
  CASE text = "-1"  -> -1
    [] text = "0"   -> 0
    [] text = "1"   -> 1
    [] text = "2"   -> 2
    [] text = "3"   -> 3
    [] text = "127" -> 127
    [] text = "128" -> 128

\* Everything the prompts leave alone
Configuring ==
  UNCHANGED <<module, midi_out, emitted, ticks, nev, button_down, mouse_offset,
              gvars, tvars, hvars, length, angle, angular_velocity,
              dragging_length, dragging_pendulum>>

\* setup_pendulum_config(), the output mode prompt: Enter takes mode 0, a
\* number in 1..2 that mode, anything else asks again; the controller prompt
\* follows only in mode 0
AnswerMode ==
  /\ stage = "mode"
  /\ \E text \in Inputs :
       LET mode_num == IntOf(text) - 1
           chosen   == IF text = "" THEN 0 ELSE mode_num
           again    == text # "" /\ (NotANumber(text)
                                     \/ mode_num < 0 \/ mode_num >= NumOutputModes)
       IN  /\ current_mode' = IF again THEN current_mode ELSE chosen
           /\ stage' = IF again THEN "mode" ELSE IF chosen = 0 THEN "setup" ELSE "connect"
  /\ UNCHANGED <<prompt, cc_numbers, bad_input>>
  /\ Configuring

\* setup_cc_assignments(), setup_pendulum_config(): one answer to the prompt
\* for controller number prompt + 1. Enter keeps the default and a number in
\* 0..127 is assigned, and both go on to the next prompt; any other answer
\* prints a message and asks again
AnswerCC ==
  /\ stage = "setup"
  /\ \E text \in Inputs :
       LET cc_num == IntOf(text)
           valid  == text # "" /\ ~NotANumber(text) /\ 0 <= cc_num /\ cc_num <= 127
           again  == text # "" /\ ~valid
       IN  /\ cc_numbers' = IF valid THEN [cc_numbers EXCEPT ![prompt + 1] = cc_num]
                             ELSE cc_numbers
           /\ prompt' = IF again THEN prompt ELSE prompt + 1
           /\ stage' = IF ~again /\ prompt + 1 = Len(cc_numbers) THEN "connect" ELSE "setup"
           /\ bad_input' = (bad_input \/ (again /\ ~NotANumber(text)))
  /\ UNCHANGED current_mode
  /\ Configuring

\* connect_midi(): the output is opened and run() entered, or opening raises
\* MidiException and main() returns
ConnectMidi ==
  /\ stage = "connect"
  /\ \E opened \in BOOLEAN :
       /\ midi_out' = opened
       /\ stage' = IF opened THEN "run" ELSE "ended"
  /\ UNCHANGED <<module, emitted, ticks, nev, button_down, mouse_offset,
                 gvars, tvars, pvars, hvars, prompt, cc_numbers, bad_input>>

\* main() after setup_midi_device(): the object is constructed, no output is
\* bound, and the first prompt is shown
InitConfig ==
  /\ module \in {"gravity", "particle", "pendulum"}
  /\ midi_out = FALSE
  /\ stage = IF module = "pendulum" THEN "mode" ELSE "setup"
  /\ InitProgram

\* the prompts, then run() with a user who leaves the mouse alone
NextConfig ==
  \/ AnswerMode
  \/ AnswerCC
  \/ ConnectMidi
  \/ GravityTick
  \/ ParticleTick
  \/ PendulumTick

SpecConfig == InitConfig /\ [][NextConfig]_vars

\* ------------------------------- a user who drops a controller under gravity
\* The gravity program with a user who sets the gravity strength (to 1, 0.5
\* or 0.005), drags the first controller to an end of its range and lets go,
\* all before the first frame's update(); after one frame the user either
\* drags the gravity strength to 0 or clicks on the background, and then
\* leaves the mouse alone while the frames go on.
\* The frames do not stop; from frame DropMaxTicks on, when the plan is over,
\* the frame counter keeps only whether the count is even or odd.
DropMaxTicks == 2

DropPlan ==
  << [at |-> 0, kind |-> "press",   on |-> {<<610, 250>>}],
     [at |-> 0, kind |-> "motion",  on |-> {<<610, 150>>, <<610, 250>>, <<610, 349>>}],
     [at |-> 0, kind |-> "release", on |-> {}],
     [at |-> 0, kind |-> "press",   on |-> {<<120, 300>>}],
     [at |-> 0, kind |-> "motion",  on |-> {<<120, 0>>, <<120, 599>>}],
     [at |-> 0, kind |-> "release", on |-> {}],
     [at |-> 1, kind |-> "press",   on |-> {<<610, 150>>, <<700, 550>>}],
     [at |-> 1, kind |-> "motion",  on |-> {<<610, 599>>}],
     [at |-> 1, kind |-> "release", on |-> {}] >>

\* The next step of the plan is an event of this kind, due in this frame
DropDue(kind) ==
  /\ module = "gravity"
  /\ nev < Len(DropPlan)
  /\ DropPlan[nev + 1].at = ticks
  /\ DropPlan[nev + 1].kind = kind
  /\ nev' = nev + 1

DropPressStep ==
  /\ DropDue("press")
  /\ \E pos \in DropPlan[nev + 1].on :
       /\ InWindow(pos)
       /\ Pressed(pos, GravityTarget(pos), GravityTargetValue(pos))
       /\ GravityPress(pos[1], pos[2])
  /\ UNCHANGED <<tvars, pvars>>

DropMotionStep ==
  /\ DropDue("motion")
  /\ \E pos \in DropPlan[nev + 1].on :
       /\ InWindow(pos)
       /\ Moved(pos)
       /\ GravityMotion(pos[1], pos[2])
  /\ UNCHANGED <<tvars, pvars>>

DropReleaseStep ==
  /\ DropDue("release")
  /\ Released
  /\ GravityRelease
  /\ UNCHANGED <<tvars, pvars>>

\* a frame without events: no step of the plan is due in it
DropTick ==
  /\ module = "gravity"
  /\ stage = "run"
  /\ nev < Len(DropPlan) => DropPlan[nev + 1].at > ticks
  /\ ticks' = IF ticks < DropMaxTicks THEN ticks + 1 ELSE ticks - 1
  /\ lastEvent' = "tick"
  /\ prevEvent' = lastEvent
  /\ GravityUpdate
  /\ UNCHANGED <<module, midi_out, nev, button_down, lastPos, pressPos, pressTarget,
                 pressValue, pressAngle, cvars, tvars, pvars>>

InitDrop ==
  /\ module = "gravity"
  /\ midi_out = TRUE
  /\ stage = "run"
  /\ InitProgram

NextDrop ==
  \/ DropPressStep
  \/ DropMotionStep
  \/ DropReleaseStep
  \/ DropTick

\* run() calls update() in every pass of its while loop: the frames never
\* stop while the program runs
SpecDrop == InitDrop /\ [][NextDrop]_vars /\ WF_vars(DropTick)

\* ------------------------------------------- particles that reach the walls
\* The particle program, with start positions near the walls and the corner
\* of the arena and start pairs on collision courses (all of them draws of
\* random.randint(50, 350) and random.uniform(-3, 3)), and enough frames for
\* the particles to get there
ArenaMaxTicks == 6

Particle(x, y, vx, vy) == [x |-> x * Q, y |-> y * Q, vx |-> RDiv(vx * Q, 2), vy |-> RDiv(vy * Q, 2)]
\* positions in pixels, velocities in half pixels per frame
ArenaParticles ==
  ({Particle(50, 50, -6, -6), Particle(50, 200, -6, 2), Particle(350, 120, 6, -4),
    Particle(200, 350, 2, 6), Particle(200, 50, -2, -6)}
     \X {Particle(300, 300, 4, 4), Particle(100, 300, -5, 1)})
  \cup {<<Particle(100, 200, 5, 0), Particle(140, 200, -5, 0)>>,
        <<Particle(100, 200, 6, 0), Particle(140, 200, 0, 0)>>,
        <<Particle(100, 100, 4, 4), Particle(130, 130, -4, -4)>>,
        <<Particle(100, 200, 6, 2), Particle(140, 210, -2, 1)>>,
        <<Particle(200, 200, 3, 3), Particle(200, 200, -3, 3)>>,
        <<Particle(200, 200, 3, 3), Particle(200, 200, 3, 3)>>,
        <<Particle(50, 200, -6, 0), Particle(80, 200, -6, 0)>>}

ArenaTick ==
  /\ module = "particle"
  /\ ticks < ArenaMaxTicks
  /\ Frame
  /\ ParticleUpdate
  /\ UNCHANGED <<gvars, pvars>>

InitArena ==
  /\ module = "particle"
  /\ midi_out = TRUE
  /\ stage = "run"
  /\ InitProgramWith(ArenaParticles)

NextArena ==
  \/ ParticlePressStep
  \/ ParticleMotionStep
  \/ ParticleReleaseStep
  \/ ArenaTick

SpecArena == InitArena /\ [][NextArena]_vars

\* ------------------------------------------------ a swing nobody touches
\* run() of the pendulum module from the state the constructor leaves, with no
\* pointer event: every frame is update() alone
\* frames of the swing: the bob passes the lowest point twice
SwingMaxTicks == 320
\* the frames taken as the first few of a run
FewTicks == 10

SwingTick ==
  /\ module = "pendulum"
  /\ ticks < SwingMaxTicks
  /\ Frame
  /\ PendulumUpdate
  /\ UNCHANGED <<gvars, tvars>>

SpecSwing == InitPump /\ [][SwingTick]_vars

\* ------------------------------------------------ a user who ends the program
\* run(): pygame.event.get() delivers QUIT, or KEYDOWN with K_ESCAPE, after
\* the events that the steps before have handled. handle_base_events returns
\* False, run() sets running = False and leaves the for loop, and the test
\* after the for loop leaves the while loop: update() is not called
Quit ==
  /\ stage = "run"
  /\ stage' = "ended"
  /\ lastEvent' = "quit"
  /\ prevEvent' = lastEvent
  /\ emitted' = <<>>
  /\ UNCHANGED <<module, midi_out, ticks, nev, button_down, mouse_offset, gvars, tvars,
                 pvars, lastPos, pressPos, pressTarget, pressValue, pressAngle,
                 prompt, cc_numbers, bad_input>>

NextStop ==
  \/ Next
  \/ Quit

SpecStop == Init /\ [][NextStop]_vars

\* ============================================================== claims
\* The value of the gravity controller that is being dragged
DraggedController == controllers[dragging_controller]
\* The rounding error a slider round trip may leave on a target of the given
\* range: half a unit of the normalized position, scaled by the range
Tol(range) == (range + 1) \div 2
\* One hundredth of a radian (1/AQ)
AngleTol == AQ \div 100

\* C1: in the gravity module, while a controller is being dragged, no tick's
\* update changes that controller's value.
C1_TickLeavesDraggedController ==
  [][(module = "gravity" /\ ticks' = ticks + 1 /\ dragging_controller # None)
       => controllers'[dragging_controller].value = DraggedController.value]_vars

\* C2: immediately after a press that starts a drag of a gravity controller or of
\* the pendulum bob, that target's velocity (controller velocity, angular
\* velocity) is 0.
C2_VelocityZeroAfterPress ==
  lastEvent = "press" =>
    /\ (module = "gravity" /\ dragging_controller # None) => DraggedController.velocity = 0
    /\ (module = "pendulum" /\ dragging_pendulum) => angular_velocity = 0

\* C3: a press inside a gravity controller's hit region followed at once by a
\* release leaves that controller's value as it was before the press, and no
\* controller is marked as dragged afterwards.
C3_PressReleaseRoundTrip ==
  (module = "gravity" /\ lastEvent = "release" /\ prevEvent = "press"
     /\ pressTarget[1] = "controller")
    => /\ controllers[pressTarget[2]].value = pressValue
       /\ dragging_controller = None
C3_Witness ==
  /\ module = "gravity" /\ lastEvent = "release" /\ prevEvent = "press"
  /\ pressTarget[1] = "controller"
  /\ mouse_offset # 0
  /\ ticks > 0

\* The last handler was a drag event that read the pointer position the press
\* had read
DragAtPressPosition == lastEvent = "motion" /\ lastPos = pressPos
C4_Within(tc, ts, tl) ==
  DragAtPressPosition =>
    /\ (module = "gravity" /\ dragging_controller # None)
         => Abs(DraggedController.value - pressValue) <= tc
    /\ (module = "gravity" /\ dragging_controller = None /\ dragging_gravity)
         => Abs(gravity_strength - pressValue) <= ts
    /\ (module = "particle" /\ dragging_temperature)
         => Abs(temperature - pressValue) <= ts
    /\ (module = "pendulum" /\ dragging_length)
         => Abs(length - pressValue) <= tl

\* C4 (as claimed): for the gravity controllers and the gravity-strength,
\* temperature and arm-length sliders, a drag event at the pointer position of the
\* press writes exactly the value the target had at the press.
C4_DragAtPressPositionExact == C4_Within(0, 0, 0)
\* C4 (amended): it writes that value up to the rounding error of the arithmetic:
\* half a unit of the normalized position, scaled by the target's range.
C4_DragAtPressPositionRounded ==
  C4_Within(Tol(127), Tol(1), Tol(max_length - min_length))
C4_Witness ==
  /\ DragAtPressPosition
  /\ module = "gravity" /\ dragging_controller # None
  /\ mouse_offset # 0
  /\ DraggedController.value # pressValue

\* C5: after a press inside the bob's hit area, a drag event at the pointer
\* position of the press leaves the pendulum angle equal (here: to within a
\* hundredth of a radian) to its value at the press.
C5_BobDragAtPressPositionKeepsAngle ==
  (module = "pendulum" /\ DragAtPressPosition /\ dragging_pendulum /\ ~dragging_length)
    => Abs(angle - pressAngle) <= AngleTol

\* C6: while the pendulum bob is being dragged, a tick leaves the angle and the
\* angular velocity unchanged and still emits the output for the held angle.
C6_TickLeavesDraggedBob ==
  [][(module = "pendulum" /\ ticks' = ticks + 1 /\ dragging_pendulum)
       => /\ angle' = angle
          /\ angular_velocity' = angular_velocity
          /\ Len(emitted') = 1
          /\ emitted' = GenerateMidiOutput(current_mode, length, angle)]_vars
C6_Witness ==
  /\ module = "pendulum" /\ lastEvent = "tick" /\ dragging_pendulum
  /\ Len(emitted) = 1
  /\ angle # RDiv(PiA, 4)

\* C7: after any sequence of ticks, presses, drags and releases, every gravity
\* controller's value lies in [0, 127].
C7_ControllerValueInRange ==
  \A i \in CtlIdx : 0 <= controllers[i].value /\ controllers[i].value <= 127 * Q
C7_Witness ==
  /\ module = "gravity" /\ ticks > 0
  /\ lastEvent = "motion" /\ dragging_controller # None
  /\ DraggedController.value = 127 * Q
  /\ NormalizedRaw(controller_y, controller_height, lastPos[2], mouse_offset) > Q

\* C8: gravity strength and temperature are in [0, 1] and the arm length is in
\* [min_length, max_length] = [100, 300] in every reachable state; the arm length
\* is never 0.
C8_ScalarsInBounds ==
  /\ 0 <= gravity_strength /\ gravity_strength <= Q
  /\ 0 <= temperature /\ temperature <= Q
  /\ min_length * Q <= length /\ length <= max_length * Q
  /\ length # 0
C8_Witness ==
  /\ module = "pendulum" /\ lastEvent = "motion" /\ dragging_length
  /\ length = min_length * Q

\* C9: gravity strength, temperature and arm length are changed only by a drag
\* event on their own slider while that slider is being dragged; ticks, presses,
\* releases and other drag events leave them unchanged.
C9_ScalarsChangeOnlyByOwnDrag ==
  [][/\ gravity_strength' # gravity_strength
          => (module = "gravity" /\ lastEvent' = "motion" /\ dragging_gravity)
     /\ temperature' # temperature
          => (module = "particle" /\ lastEvent' = "motion" /\ dragging_temperature)
     /\ length' # length
          => (module = "pendulum" /\ lastEvent' = "motion" /\ dragging_length)]_vars
C9_Witness ==
  /\ module = "gravity" /\ lastEvent = "tick" /\ prevEvent = "release"
  /\ gravity_strength # RDiv(Q, 2)

\* C10: in every reachable state in which the pendulum bob is being dragged,
\* |angle| <= 0.8 * pi.
C10_DraggedAngleClamped ==
  (module = "pendulum" /\ dragging_pendulum) => Abs(angle) <= MaxAngle

\* The value a pitch-bend message encodes: its two 7-bit data bytes joined,
\* less the 8192 that stands for no bend
BendValue(m) == m.msb * 128 + m.lsb - 8192
\* C11: every message written to the output is in protocol range: a
\* control-change message has a controller number in 0..127 and an integer
\* value in 0..127, and a pitch-bend message has two data bytes in 0..127 that
\* encode a value in -8192..8191.
C11_MessagesInProtocolRange ==
  \A k \in DOMAIN emitted :
    LET m == emitted[k]
    IN  \/ /\ m.type = "cc"
           /\ m.number \in 0..127
           /\ m.value \in 0..127
        \/ /\ m.type = "pitch"
           /\ m.lsb \in 0..127 /\ m.msb \in 0..127
           /\ BendValue(m) \in -8192..8191
C11_Witness ==
  /\ module = "pendulum" /\ current_mode = 1 /\ lastEvent = "tick"
  /\ emitted # <<>> /\ emitted[1].type = "pitch"
  /\ BendValue(emitted[1]) # 0

\* The control value that rounding to the nearest integer gives for a value
\* in 1/Q
RoundedControl(v) == Clamp(0, 127, RDiv(v, Q))
\* The messages of the last handler that carry controller number cc
Carrying(cc) == {k \in DOMAIN emitted : emitted[k].type = "cc" /\ emitted[k].number = cc}
\* The pendulum's normalized bob position (1/Q): over [pivot_x - length,
\* pivot_x + length] for the control value, over [pivot_x, pivot_x + length]
\* for the bend
BobNormalized(mode) ==
  LET bob_x == CalculatePendulumPosition(length, angle)[1]
  IN  IF mode = 0 THEN RDiv((bob_x - (pivot_x * Q - length)) * Q, 2 * length)
      ELSE RDiv((bob_x - pivot_x * Q) * Q, length)
\* C12: every emitted control value is the source value scaled to 0..127 and
\* rounded to the nearest integer, and every emitted bend value is the
\* normalized position times 8192 rounded to the nearest integer, clamped: for
\* the gravity controller outputs, the particle axis outputs and the two
\* pendulum outputs.
C12_EmittedValuesRounded ==
  /\ module = "gravity" =>
        \A i \in CtlIdx : \A k \in Carrying(CC(i)) :
          emitted[k].value = RoundedControl(controllers[i].value)
  /\ (module = "particle" /\ Len(emitted) = 4) =>
        /\ emitted[1].value = RoundedControl(RDiv(red_particle.x * 127, sim_width))
        /\ emitted[2].value = RoundedControl(RDiv(red_particle.y * 127, sim_height))
        /\ emitted[3].value = RoundedControl(RDiv(green_particle.x * 127, sim_width))
        /\ emitted[4].value = RoundedControl(RDiv(green_particle.y * 127, sim_height))
  /\ (module = "pendulum" /\ Len(emitted) = 1) =>
        IF emitted[1].type = "cc"
        THEN emitted[1].value = RoundedControl(BobNormalized(0) * 127)
        ELSE BendValue(emitted[1])
               = Clamp(-8192, 8191, RDiv(BobNormalized(1) * 8192, Q))

\* C13: with no output bound, every tick leaves the simulation state
\* (controller values and velocities, particle positions and velocities,
\* pendulum angle and angular velocity) exactly as the same tick with a bound
\* output leaves it, and no handler writes a message. The handlers are
\* functions of the state and the event, so two runs over the same events, one
\* with and one without an output, then agree after every step.
C13_NoSinkSameSimulation ==
  [][/\ ~midi_out
     /\ emitted' = <<>>
     /\ (lastEvent' = "tick" /\ module = "gravity")
          => controllers' = GravityUpdated("ok").controllers
     /\ (lastEvent' = "tick" /\ module = "particle")
          => /\ red_particle' = ParticleUpdated("ok").red
             /\ green_particle' = ParticleUpdated("ok").green
     /\ (lastEvent' = "tick" /\ module = "pendulum")
          => /\ angle' = PendulumUpdated("ok").angle
             /\ angular_velocity' = PendulumUpdated("ok").angular_velocity]_vars
C13_Witness ==
  /\ ~midi_out /\ module = "gravity" /\ lastEvent = "tick"
  /\ \E i \in CtlIdx : controllers[i].velocity # 0

\* C14: a write to the bound output that fails does not end the loop: after
\* every step the loop is still running, and a tick in which a write fails
\* leaves the simulation state as the same tick with a succeeding write leaves
\* it.
C14_WriteFailureSwallowed ==
  [][/\ stage' = "run"
     /\ (lastEvent' = "tick" /\ module = "gravity")
          => controllers' = GravityUpdated("ok").controllers
     /\ (lastEvent' = "tick" /\ module = "particle")
          => <<red_particle', green_particle'>>
               = <<ParticleUpdated("ok").red, ParticleUpdated("ok").green>>
     /\ (lastEvent' = "tick" /\ module = "pendulum")
          => <<angle', angular_velocity'>>
               = <<PendulumUpdated("ok").angle, PendulumUpdated("ok").angular_velocity>>]_vars

\* C15: once a controller number outside 0..127 has been typed at a prompt the
\* simulation loop is not running, and every controller number that is bound
\* is in 0..127.
C15_BadNumberRejected ==
  /\ bad_input => stage # "run"
  /\ \A k \in DOMAIN cc_numbers : cc_numbers[k] \in 0..127

\* C16: with gravity strength 0, a tick of the gravity module leaves the value
\* of every controller unchanged.
C16_ZeroGravityKeepsValues ==
  [][(module = "gravity" /\ lastEvent' = "tick" /\ gravity_strength = 0)
       => \A i \in CtlIdx : controllers'[i].value = controllers[i].value]_vars

\* A controller at rest at the center
AtRest == [value |-> Center * Q, velocity |-> 0]
\* C17: in the gravity module with gravity strength > 0, a controller whose
\* value is within 0.1 of 64 when a tick starts has value 64 and velocity 0
\* after the tick; and a controller with value 64 and velocity 0 keeps them in
\* every step except a drag event on that controller.
C17_DeadzoneSnapsAndStays ==
  [][module = "gravity" =>
       \A i \in CtlIdx :
         /\ (lastEvent' = "tick" /\ gravity_strength > 0 /\ ~Moving(controllers[i]))
              => controllers'[i] = AtRest
         /\ (controllers[i] = AtRest /\ controllers'[i] # AtRest)
              => (lastEvent' = "motion" /\ dragging_controller = i)]_vars
C17_Witness ==
  /\ module = "gravity" /\ gravity_strength > 0
  /\ lastEvent = "tick" /\ prevEvent = "motion"
  /\ dragging_controller # None /\ lastPos = pressPos
  /\ pressValue = Center * Q
  /\ DraggedValue(lastPos[2]) # Center * Q
  /\ controllers[dragging_controller] = AtRest

\* The user has let go for good, with a gravity strength > 0
LetGoUnderGravity == module = "gravity" /\ nev = Len(DropPlan) /\ gravity_strength > 0
\* update() integrates no controller
AllInDeadzone == \A c \in {controllers[i] : i \in CtlIdx} : ~Moving(c)
AxisReflected(pos, vel, size, pos2, vel2) ==
  LET moved == pos + MulQ(vel, GetSpeedMultiplier)
      near  == particle_radius * Q
      far   == (size - particle_radius) * Q
  IN  /\ moved <= near => (pos2 = near /\ vel2 >= 0 /\ Abs(vel2) = Abs(vel))
      /\ moved >= far => (pos2 = far /\ vel2 <= 0 /\ Abs(vel2) = Abs(vel))
      /\ (near < moved /\ moved < far) => (pos2 = moved /\ vel2 = vel)
ParticleReflected(p, p2) ==
  /\ AxisReflected(p.x, p.vx, sim_width, p2.x, p2.vx)
  /\ AxisReflected(p.y, p.vy, sim_height, p2.y, p2.vy)
\* C19: in a tick of the particle module in which the particles do not
\* collide, a particle whose integrated position reaches or crosses a wall on
\* an axis is put on the wall limit of that axis, its velocity component on
\* that axis keeps its magnitude and points back into the arena, and the
\* component on an axis on which no wall is reached is unchanged.
C19_WallReflection ==
  [][(module = "particle" /\ lastEvent' = "tick"
      /\ ~CheckParticleCollision(UpdateParticle(red_particle), UpdateParticle(green_particle)))
       => /\ ParticleReflected(red_particle, red_particle')
          /\ ParticleReflected(green_particle, green_particle')]_vars
C19_Witness ==
  /\ module = "particle" /\ lastEvent = "tick"
  /\ red_particle.x = particle_radius * Q
  /\ red_particle.vx = 3 * Q /\ red_particle.vy = Q
  /\ red_particle.y # particle_radius * Q

\* The particles as update_particle leaves them, before the collision test
MovedRed == UpdateParticle(red_particle)
MovedGreen == UpdateParticle(green_particle)
\* The unit vector from the second particle's center to the first's (1/Q)
UnitNormal(p1, p2) ==
  <<RDiv((p1.x - p2.x) * Q, Distance(p1, p2)), RDiv((p1.y - p2.y) * Q, Distance(p1, p2))>>
\* The components of a particle's velocity along n and across n
Along(p, n) == MulQ(p.vx, n[1]) + MulQ(p.vy, n[2])
Across(p, n) == MulQ(p.vy, n[1]) - MulQ(p.vx, n[2])
\* This tick resolves a collision of approaching particles with distinct centers
Colliding ==
  /\ module = "particle"
  /\ CheckParticleCollision(MovedRed, MovedGreen)
  /\ Distance(MovedRed, MovedGreen) # 0
  /\ Along(MovedRed, UnitNormal(MovedRed, MovedGreen))
       < Along(MovedGreen, UnitNormal(MovedRed, MovedGreen))
\* The velocities are equal and opposite and lie along the line of centers
HeadOn ==
  /\ MovedRed.vx = -MovedGreen.vx /\ MovedRed.vy = -MovedGreen.vy
  /\ (MovedRed.x - MovedGreen.x) * MovedRed.vy = (MovedRed.y - MovedGreen.y) * MovedRed.vx
\* One hundredth of a pixel per frame (1/Q)
VTol == Q \div 100
\* C20 as stated: in a tick that resolves a head-on collision of particles
\* with equal and opposite velocities, both velocities are reversed exactly.
C20_HeadOnReversesExactly ==
  [][(lastEvent' = "tick" /\ Colliding /\ HeadOn)
       => /\ red_particle'.vx = -MovedRed.vx /\ red_particle'.vy = -MovedRed.vy
          /\ green_particle'.vx = -MovedGreen.vx /\ green_particle'.vy = -MovedGreen.vy]_vars
\* C20: in a tick that resolves a collision of approaching particles with
\* distinct centers, up to rounding the particles trade the components of
\* their velocities along the line of centers, keep the components across it,
\* and the sum of the two velocities is unchanged.
C20_ElasticExchange ==
  [][(lastEvent' = "tick" /\ Colliding)
       => LET n == UnitNormal(MovedRed, MovedGreen)
          IN  /\ Abs(Along(red_particle', n) - Along(MovedGreen, n)) <= VTol
              /\ Abs(Along(green_particle', n) - Along(MovedRed, n)) <= VTol
              /\ Abs(Across(red_particle', n) - Across(MovedRed, n)) <= VTol
              /\ Abs(Across(green_particle', n) - Across(MovedGreen, n)) <= VTol
              /\ Abs(red_particle'.vx + green_particle'.vx
                       - (MovedRed.vx + MovedGreen.vx)) <= VTol
              /\ Abs(red_particle'.vy + green_particle'.vy
                       - (MovedRed.vy + MovedGreen.vy)) <= VTol]_vars
C20_Witness ==
  /\ module = "particle" /\ lastEvent = "tick"
  /\ red_particle.vx = 0 /\ red_particle.vy = 0
  /\ green_particle.vx = 3 * Q /\ green_particle.vy = 0
  /\ green_particle.x - red_particle.x = 2 * particle_radius * Q

\* This tick finds the moved particles overlapping, with distinct centers
Overlapping ==
  /\ module = "particle"
  /\ CheckParticleCollision(MovedRed, MovedGreen)
  /\ Distance(MovedRed, MovedGreen) # 0
\* The two centers are the same point
SameCenter(p1, p2) == p1.x = p2.x /\ p1.y = p2.y
\* The centers are at least r1 + r2 - tol apart
ApartBy(p1, p2, tol) ==
  ~Near(p1, p2) \/ Distance(p1, p2) >= 2 * particle_radius * Q - tol
\* One twentieth of a pixel (1/Q)
DTol == Q \div 20
\* C21 as stated: at the end of every tick of the particle module the centers
\* are at least r1 + r2 apart, unless they coincide.
C21_NoOverlapAfterTick ==
  (module = "particle" /\ lastEvent = "tick")
    => (SameCenter(red_particle, green_particle) \/ ApartBy(red_particle, green_particle, 0))
\* C21: a tick that finds the particles overlapping with distinct centers
\* moves them by opposite displacements of half the overlap each, up to
\* rounding; and at the end of every tick the centers are r1 + r2 apart up to
\* rounding, unless they coincide.
C21_SeparatedUpToRounding ==
  [][(module = "particle" /\ lastEvent' = "tick")
       => /\ Overlapping =>
               LET sx   == red_particle'.x - MovedRed.x
                   sy   == red_particle'.y - MovedRed.y
                   half == RDiv(2 * particle_radius * Q - Distance(MovedRed, MovedGreen), 2)
               IN  /\ green_particle'.x - MovedGreen.x = -sx
                   /\ green_particle'.y - MovedGreen.y = -sy
                   /\ Abs(Sqrt(sx * sx + sy * sy) - half) <= DTol
          /\ \/ SameCenter(red_particle', green_particle')
             \/ ApartBy(red_particle', green_particle', DTol)]_vars
C21_Witness ==
  /\ module = "particle" /\ lastEvent = "tick"
  /\ ~SameCenter(red_particle, green_particle)
  /\ ~ApartBy(red_particle, green_particle, 0)
  /\ ApartBy(red_particle, green_particle, DTol)

\* C22: a tick of the particle module that finds the moved particles with the
\* same center leaves both exactly as update_particle left them, positions and
\* velocities, and completes: the four axis values are sent and the loop goes
\* on.
C22_SameCenterSkipsResolution ==
  [][(module = "particle" /\ lastEvent' = "tick" /\ SameCenter(MovedRed, MovedGreen))
       => /\ red_particle' = MovedRed
          /\ green_particle' = MovedGreen
          /\ Len(emitted') = 4
          /\ stage' = "run"]_vars
C22_Witness ==
  /\ module = "particle" /\ lastEvent = "tick" /\ ticks = 2
  /\ SameCenter(red_particle, green_particle)
  /\ red_particle.x # 200 * Q
  /\ red_particle.vx = green_particle.vx /\ red_particle.vy = green_particle.vy

\* C23: in a swing nobody touches, the magnitude of the angular velocity falls
\* from a tick to the next whenever the bob moves away from the lowest point
\* and keeps its direction; it does not fall on every tick, for it grows while
\* the bob swings down.
SameSign(a, b) == (a > 0 /\ b > 0) \/ (a < 0 /\ b < 0)
SwingingOut == SameSign(angle, angular_velocity)
FreeTick ==
  /\ module = "pendulum" /\ lastEvent' = "tick"
  /\ ~dragging_pendulum /\ ~dragging_length /\ length' = length
C24_OneOutputPerTick ==
  (module = "pendulum" /\ lastEvent = "tick")
    => /\ Len(emitted) = 1
       /\ current_mode = 0 => (emitted[1].type = "cc" /\ emitted[1].number = cc_numbers[1])
       /\ current_mode = 1 => emitted[1].type = "pitch"
C24_Witness ==
  /\ module = "pendulum" /\ lastEvent = "tick"
  /\ pressPos = <<600, 420>> /\ current_mode = 1
  /\ Len(emitted) = 1 /\ emitted[1].type = "pitch"

\* C25: the pass of the loop that reads the stop signal still runs update()
\* once, with its output, and is the last: the frame is counted, the state is
\* the one update() leaves, the messages are the ones update() writes, and the
\* loop has ended.
C25_StopTickCompletes ==
  [][lastEvent' = "quit"
       => /\ stage' = "ended"
          /\ ticks' = ticks + 1
          /\ module = "gravity"
               => /\ controllers' = GravityUpdated(Sink).controllers
                  /\ emitted' = GravityUpdated(Sink).emitted
          /\ module = "particle"
               => /\ red_particle' = ParticleUpdated(Sink).red
                  /\ green_particle' = ParticleUpdated(Sink).green
                  /\ emitted' = ParticleUpdated(Sink).emitted
          /\ module = "pendulum"
               => /\ angle' = PendulumUpdated(Sink).angle
                  /\ angular_velocity' = PendulumUpdated(Sink).angular_velocity
                  /\ emitted' = PendulumUpdated(Sink).emitted]_vars

\* C26: a tick that finds the moved particles overlapping, with distinct
\* centers and a positive relative velocity along the normal (they separate),
\* leaves both velocities as update_particle left them and still moves the
\* centers apart, by opposite displacements, to r1 + r2 up to rounding.
NormalSpeed(p1, p2) ==
  MulQ(p1.vx - p2.vx, UnitNormal(p1, p2)[1]) + MulQ(p1.vy - p2.vy, UnitNormal(p1, p2)[2])
Separating == Overlapping /\ NormalSpeed(MovedRed, MovedGreen) > 0
C26_SeparatingKeepsVelocities ==
  [][(lastEvent' = "tick" /\ Separating)
       => /\ red_particle'.vx = MovedRed.vx /\ red_particle'.vy = MovedRed.vy
          /\ green_particle'.vx = MovedGreen.vx /\ green_particle'.vy = MovedGreen.vy
          /\ red_particle'.x - MovedRed.x = -(green_particle'.x - MovedGreen.x)
          /\ red_particle'.y - MovedRed.y = -(green_particle'.y - MovedGreen.y)
          /\ ApartBy(red_particle', green_particle', DTol)
          /\ Distance(red_particle', green_particle')
               >= Distance(MovedRed, MovedGreen)]_vars
\* the pair that starts on one center with opposite horizontal velocities has
\* moved 6 pixels apart, and the tick has put it 30 pixels apart with the
\* velocities it started with
C26_Witness ==
  /\ module = "particle" /\ lastEvent = "tick" /\ ticks = 1
  /\ red_particle.y = green_particle.y
  /\ red_particle.x - green_particle.x = 2 * particle_radius * Q
  /\ red_particle.vx = RDiv(3 * Q, 2) /\ green_particle.vx = -RDiv(3 * Q, 2)
  /\ red_particle.vy = RDiv(3 * Q, 2) /\ green_particle.vy = RDiv(3 * Q, 2)

\* C27: after every tick of the particle module both centers are inside the
\* arena, at least a radius away from each of its four sides.
InArena(p) ==
  /\ particle_radius * Q <= p.x /\ p.x <= (sim_width - particle_radius) * Q
  /\ particle_radius * Q <= p.y /\ p.y <= (sim_height - particle_radius) * Q
C27_CentersInsideArena ==
  (module = "particle" /\ lastEvent = "tick")
    => (InArena(red_particle) /\ InArena(green_particle))

\* C28: a press starts a drag on at most one target. In the pendulum module
\* the drag of the length slider and the drag of the bob are never both
\* active and a press that grabs the bob leaves the output mode alone; in the
\* gravity module the drag of a controller and the drag of the gravity slider
\* are never both active.
PendulumOneDrag == ~(dragging_length /\ dragging_pendulum)
GravityOneDrag == ~(dragging_controller # None /\ dragging_gravity)
GrabsBob == module = "pendulum" /\ lastEvent' = "press" /\ ~dragging_pendulum /\ dragging_pendulum'
C28_OneDragPerPress ==
  [][/\ PendulumOneDrag'
     /\ GrabsBob => current_mode' = current_mode
     /\ GravityOneDrag']_vars

\* C29: when a tick brings a controller of the gravity module that is not
\* dragged to rest at the center (value 64, velocity 0) right after a tick
\* that moved it, the control change that the earlier tick wrote for its
\* controller number, the last one written for it, carries the value 64.
ComesToRest(i) ==
  /\ module = "gravity" /\ lastEvent = "tick" /\ lastEvent' = "tick"
  /\ dragging_controller # i
  /\ controllers[i] # AtRest /\ controllers'[i] = AtRest
LastWritten(i) == {m \in {emitted[k] : k \in 1..Len(emitted)} : m.number = CC(i)}
C29_RestAgreesWithLastOutput ==
  [][\A i \in CtlIdx :
       ComesToRest(i) => \A m \in LastWritten(i) : m.value = Center]_vars

====
